---------------------------- MODULE Spec2Model ----------------------------
(***************************************************************************)
(* refxss (src/main.go): a line-reading producer, a pool of workers that   *)
(* normalise each URL, detect its reflected query parameters and probe the *)
(* special characters each of them lets through, a closer goroutine, and   *)
(* the aggregator in main that groups the findings and prints the report.  *)
(*                                                                         *)
(* Strings are TLA+ strings; Len, SubSeq and \o act on them as on          *)
(* sequences of characters.                                                *)
(***************************************************************************)
EXTENDS Integers, Sequences, FiniteSets, TLC

(***************************************************************************)
(* Bounds of the model.                                                    *)
(***************************************************************************)
\* The -c option ranges over 0..MaxWorkers.
MaxWorkers == 2
\* Standard input holds at most MaxLines lines.
MaxLines == 2
\* Longest string over Alphabet that SpecOne feeds to a single worker.
MaxLen == 3

(***************************************************************************)
(* The state of a run of main.                                             *)
(***************************************************************************)
VARIABLES
    concurrency,    \* the -c flag
    lines,          \* standard input, line by line
    scanned,        \* how many lines sc.Scan() has returned
    mainpc,         \* where main is: spawn, go_producer, range, fold, print, done
    spawned,        \* the loop variable i of line 70
    wg,             \* the counter of the WaitGroup
    closer,         \* the goroutine of line 91: none, wait, done
    producer,       \* the goroutine of line 96: its place and its line
    inputClosed,    \* close(input) has run
    resultsClosed,  \* close(results) has run
    worker,         \* the goroutines of line 72
    r,              \* the Result the range of line 110 has received
    grouped,        \* the map of line 108
    foundAny,       \* the flag of line 107
    output,         \* what lines 119 to 129 have printed
    pulls,          \* history: how often each line was handed to a worker
    done,           \* history: the lines whose scan a worker has finished
    detectLog,      \* history: the calls of findReflectedParams
    probeLog,       \* history: the calls of testSpecialChars
    received,       \* history: the Results folded
    reqs,           \* history: per line, the calls of doRequest and the
                    \* number of parameters the detector returned
    trace           \* whether detectLog and probeLog keep the requests and
                    \* the responses of each call

vars ==
    <<concurrency, lines, scanned, mainpc, spawned, wg, closer, producer,
      inputClosed, resultsClosed, worker, r, grouped, foundAny, output,
      pulls, done, detectLog, probeLog, received, reqs, trace>>

(***************************************************************************)
(* Strings.                                                                *)
(***************************************************************************)
Char(s, i) == SubSeq(s, i, i)

Drop(s, n) == SubSeq(s, n + 1, Len(s))

\* strings.HasPrefix
HasPrefix(s, p) == Len(s) >= Len(p) /\ SubSeq(s, 1, Len(p)) = p

\* strings.Index, 0 when sub does not occur (Go: -1), else the 1-based place
RECURSIVE IndexFrom(_, _, _)
IndexFrom(s, sub, i) ==
    IF i + Len(sub) - 1 > Len(s) THEN 0
    ELSE IF SubSeq(s, i, i + Len(sub) - 1) = sub THEN i
    ELSE IndexFrom(s, sub, i + 1)

Index(s, sub) == IndexFrom(s, sub, 1)

\* strings.Contains: the empty string is contained in every string
Contains(s, sub) == Index(s, sub) # 0

\* strings.ReplaceAll for a one-character old
RECURSIVE ReplaceAll(_, _, _)
ReplaceAll(s, old, new) ==
    IF s = "" THEN ""
    ELSE (IF Char(s, 1) = old THEN new ELSE Char(s, 1))
             \o ReplaceAll(Drop(s, 1), old, new)

\* strings.TrimSpace, for the white space of the model's alphabet
IsSpace(c) == c \in {" ", "\t"}

RECURSIVE TrimLeft(_)
TrimLeft(s) ==
    IF s # "" /\ IsSpace(Char(s, 1)) THEN TrimLeft(Drop(s, 1)) ELSE s

RECURSIVE TrimRight(_)
TrimRight(s) ==
    IF s # "" /\ IsSpace(Char(s, Len(s)))
    THEN TrimRight(SubSeq(s, 1, Len(s) - 1)) ELSE s

TrimSpace(s) == TrimRight(TrimLeft(s))

(***************************************************************************)
(* URL normalisation: strings.NewReplacer(...).Replace.  The generic       *)
(* replacer scans left to right; at each place it takes the matching pair  *)
(* of highest priority (the earliest argument), writes its replacement and *)
(* skips the match; with no match it copies one character.                 *)
(***************************************************************************)
replacer ==
    << <<"\\\\?", "?">>, <<"\\?", "?">>, <<"\\=", "=">>, <<"\\&", "&">> >>

\* The replacer without its last pair.
replacerNoAmp ==
    << <<"\\\\?", "?">>, <<"\\?", "?">>, <<"\\=", "=">> >>

\* genericReplacer.lookup: the first pair whose old string starts s, 0 if none
RECURSIVE Lookup(_, _, _)
Lookup(pairs, s, k) ==
    IF k > Len(pairs) THEN 0
    ELSE IF HasPrefix(s, pairs[k][1]) THEN k
    ELSE Lookup(pairs, s, k + 1)

RECURSIVE Replace(_, _)
Replace(pairs, s) ==
    IF s = "" THEN ""
    ELSE LET k == Lookup(pairs, s, 1) IN
         IF k # 0
         THEN pairs[k][2] \o Replace(pairs, Drop(s, Len(pairs[k][1])))
         ELSE Char(s, 1) \o Replace(pairs, Drop(s, 1))

normalizeURLNoAmp(u) == Replace(replacerNoAmp, u)

normalizeURL(u) == Replace(replacer, u)


(***************************************************************************)
(* net/url, for the characters of the model's alphabet: letters, digits,   *)
(* the 13 probe characters, and \ ? = & / + % space and tab.               *)
(***************************************************************************)
\* The backquote character: a string literal cannot hold it alone.
Backquote == SubSeq("`'", 1, 1)

\* shouldEscape(c, encodeQueryComponent): every character that is not
\* unreserved, with its %XX form (upper-case hex); the space becomes "+"
Escaped ==
    ("\"" :> "%22") @@ ("'" :> "%27") @@ ("<" :> "%3C") @@ (">" :> "%3E") @@
    ("$" :> "%24") @@ ("|" :> "%7C") @@ ("(" :> "%28") @@ (")" :> "%29") @@
    (Backquote :> "%60") @@ (":" :> "%3A") @@ (";" :> "%3B") @@ ("{" :> "%7B") @@
    ("}" :> "%7D") @@ ("\\" :> "%5C") @@ ("?" :> "%3F") @@ ("=" :> "%3D") @@
    ("&" :> "%26") @@ ("/" :> "%2F") @@ ("+" :> "%2B") @@ ("%" :> "%25") @@
    ("\t" :> "%09") @@ (" " :> "+")

\* url.QueryEscape
RECURSIVE QueryEscape(_)
QueryEscape(s) ==
    IF s = "" THEN ""
    ELSE (IF Char(s, 1) \in DOMAIN Escaped THEN Escaped[Char(s, 1)]
          ELSE Char(s, 1)) \o QueryEscape(Drop(s, 1))

\* url.QueryUnescape: "+" is a space, %XX the character it encodes; a "%"
\* that no two hex digits follow is an error.  Of the %XX forms the model
\* knows those of Escaped.
RECURSIVE QueryUnescape(_)
QueryUnescape(s) ==
    IF s = "" THEN [err |-> FALSE, s |-> ""]
    ELSE IF Char(s, 1) = "%"
    THEN LET hit == {c \in DOMAIN Escaped : Escaped[c] = SubSeq(s, 1, 3)}
             rest == QueryUnescape(Drop(s, 3))
         IN  IF Len(s) < 3 \/ hit = {} \/ rest.err
             THEN [err |-> TRUE, s |-> ""]
             ELSE [err |-> FALSE, s |-> (CHOOSE c \in hit : TRUE) \o rest.s]
    ELSE LET rest == QueryUnescape(Drop(s, 1))
             c == IF Char(s, 1) = "+" THEN " " ELSE Char(s, 1)
         IN  IF rest.err THEN rest ELSE [err |-> FALSE, s |-> c \o rest.s]

\* url.Values: a map from a key to the list of its values
NoValues == [k \in {} |-> <<>>]

\* m[key] = append(m[key], value)
AddValue(m, key, value) ==
    IF key \in DOMAIN m THEN [m EXCEPT ![key] = Append(@, value)]
    ELSE m @@ (key :> <<value>>)

\* url.ParseQuery: the pairs are cut at "&", each at its first "="; a pair
\* with a ";", an empty pair or one that does not unescape is dropped
RECURSIVE parseQuery(_, _)
parseQuery(m, query) ==
    IF query = "" THEN m
    ELSE LET i == Index(query, "&")
             pair == IF i = 0 THEN query ELSE SubSeq(query, 1, i - 1)
             rest == IF i = 0 THEN "" ELSE Drop(query, i)
             j == Index(pair, "=")
             key == QueryUnescape(IF j = 0 THEN pair ELSE SubSeq(pair, 1, j - 1))
             value == QueryUnescape(IF j = 0 THEN "" ELSE Drop(pair, j))
         IN  IF Contains(pair, ";") \/ pair = "" \/ key.err \/ value.err
             THEN parseQuery(m, rest)
             ELSE parseQuery(AddValue(m, key.s, value.s), rest)

\* url.Parse: a control character is an error; the query is what follows the
\* first question mark.  The model's alphabet has no fragment mark and, but
\* for the scheme of an http URL, no colon.
urlParse(target) ==
    LET i == Index(target, "?") IN
    [err |-> Contains(target, "\t"),
     base |-> IF i = 0 THEN target ELSE SubSeq(target, 1, i - 1),
     RawQuery |-> IF i = 0 THEN "" ELSE Drop(target, i)]

\* (*URL).Query
Query(u) == parseQuery(NoValues, u.RawQuery)

\* Values.Get: the first value of the key, "" when it has none
Get(q, key) == IF key \in DOMAIN q /\ Len(q[key]) > 0 THEN q[key][1] ELSE ""

\* Values.Set: the key's values are replaced by the one value
Set(q, key, value) ==
    [k \in DOMAIN q \cup {key} |-> IF k = key THEN <<value>> ELSE q[k]]

\* The keys the model's URLs use, in byte order (Values.Encode sorts them).
KeyOrder == <<"", "&", "=", "?", "\\", "a", "q", "r">>

SortedKeys(q) == SelectSeq(KeyOrder, LAMBDA k : k \in DOMAIN q)

RECURSIVE EncodeValues(_, _, _)
EncodeValues(key, vs, i) ==
    IF i > Len(vs) THEN <<>>
    ELSE <<QueryEscape(key) \o "=" \o QueryEscape(vs[i])>>
             \o EncodeValues(key, vs, i + 1)

RECURSIVE JoinAmp(_)
JoinAmp(parts) ==
    IF parts = <<>> THEN ""
    ELSE IF Len(parts) = 1 THEN parts[1]
    ELSE parts[1] \o "&" \o JoinAmp(Tail(parts))

RECURSIVE EncodeKeys(_, _, _)
EncodeKeys(q, keys, i) ==
    IF i > Len(keys) THEN <<>>
    ELSE EncodeValues(keys[i], q[keys[i]], 1) \o EncodeKeys(q, keys, i + 1)

\* Values.Encode: key=value pairs, escaped, sorted by key, joined by "&"
Encode(q) == JoinAmp(EncodeKeys(q, SortedKeys(q), 1))

\* (*URL).String of a URL whose RawQuery was replaced
String(u, rawQuery) ==
    IF rawQuery = "" THEN u.base ELSE u.base \o "?" \o rawQuery

(***************************************************************************)
(* The network: one host, x, reached over http.  It answers a GET in one   *)
(* of five ways, each a page built from the decoded query values of the    *)
(* request: echoing them, echoing them HTML-escaped, echoing them as they  *)
(* are written in a query string, echoing them with the special characters *)
(* removed, or a fixed page.                                               *)
(***************************************************************************)
Modes == {"echo", "escape", "encode", "strip", "static"}

ContentTypes == {"text/html", "application/json"}

\* The probe set of testSpecialChars, in its order.
chars ==
    <<"\"", "'", "<", ">", "$", "|", "(", ")", Backquote, ":", ";", "{", "}">>

HtmlEscaped ==
    ("&" :> "&amp;") @@ ("<" :> "&lt;") @@ (">" :> "&gt;") @@
    ("\"" :> "&#34;") @@ ("'" :> "&#39;")

RECURSIVE Transform(_, _)
Transform(mode, v) ==
    IF v = "" THEN ""
    ELSE LET c == Char(v, 1)
             out == CASE mode = "escape" /\ c \in DOMAIN HtmlEscaped
                            -> HtmlEscaped[c]
                      [] mode = "encode" -> QueryEscape(c)
                      [] mode = "strip" /\ c \in {chars[i] : i \in DOMAIN chars}
                            -> ""
                      [] OTHER -> c
         IN  out \o Transform(mode, Drop(v, 1))

RECURSIVE PageOf(_, _, _, _)
PageOf(mode, q, keys, i) ==
    IF i > Len(keys) THEN ""
    ELSE "[" \o Transform(mode, Get(q, keys[i])) \o "]"
             \o PageOf(mode, q, keys, i + 1)

\* The body the host serves for a request URL.
Page(mode, target) ==
    IF mode = "static" THEN "ok"
    ELSE LET q == Query(urlParse(target)) IN PageOf(mode, q, SortedKeys(q), 1)

\* Whether a GET of the target can be issued and answered at all: the URL
\* parses and names the host of the model.
Reachable(target) == ~urlParse(target).err /\ HasPrefix(target, "http://x/")

\* What the network does with one request: fail it (no connection, timeout),
\* break the body off (a read error), or answer in a mode with a content type.
Outcomes ==
    [fail : {TRUE}, readErr : {FALSE}, ctype : {""}, mode : {"static"}]
        \cup [fail : {FALSE}, readErr : BOOLEAN, ctype : ContentTypes,
              mode : Modes]

(***************************************************************************)
(* The HTTP step and the two scans.                                        *)
(***************************************************************************)
\* doRequest: (nil, "") when the request cannot be built or fails, (resp, "")
\* when the body cannot be read, else the response and its body.  resp is
\* modelled by its Content-Type header.
doRequest(target, net) ==
    IF net.fail \/ ~Reachable(target) THEN [nil |-> TRUE, ctype |-> "", body |-> ""]
    ELSE IF net.readErr THEN [nil |-> FALSE, ctype |-> net.ctype, body |-> ""]
    ELSE [nil |-> FALSE, ctype |-> net.ctype, body |-> Page(net.mode, target)]

\* A test of the value as it stands only.
ReflectsRaw(body, v) == Len(v) # 0 /\ Contains(body, v[1])

\* The test of lines 161 to 173 on one entry k, v of u.Query()
Reflects(body, v) ==
    /\ Len(v) # 0
    /\ \/ Contains(body, v[1])
       \/ Contains(body, QueryEscape(v[1]))
       \/ Contains(body, ReplaceAll(v[1], " ", "+"))

\* A detector that does not look at the content type.
ReflectedKeysAnyType(target, net) ==
    LET resp == doRequest(target, net)
        u == urlParse(target)
        q == Query(u)
    IN  IF resp.nil THEN {}
        ELSE IF u.err THEN {}
        ELSE {k \in DOMAIN q : Reflects(resp.body, q[k])}

\* The set of keys findReflectedParams appends.
ReflectedKeys(target, net) ==
    LET resp == doRequest(target, net)
        u == urlParse(target)
        q == Query(u)
    IN  IF resp.nil THEN {}
        ELSE IF ~Contains(resp.ctype, "html") THEN {}
        ELSE IF u.err THEN {}
        ELSE {k \in DOMAIN q : Reflects(resp.body, q[k])}

\* All orders of a finite set, as sequences.
RECURSIVE Orders(_)
Orders(S) ==
    IF S = {} THEN {<<>>}
    ELSE UNION {{<<x>> \o t : t \in Orders(S \ {x})} : x \in S}

\* findReflectedParams: the reflected keys in the order the range over the
\* map u.Query() visits them, which Go leaves unspecified: every order is a
\* possible result.
findReflectedParams(target, net) == Orders(ReflectedKeys(target, net))

\* Lines 29 and 30
prefix == "aprefix"

suffix == "asuffix"

\* A probe that puts the payload in place of the value.
probeURLReplace(target, param, payload) ==
    LET u == urlParse(target)
        q2 == Set(Query(u), param, payload)
    IN  String(u, Encode(q2))

\* Lines 205 to 209 of checkAppend: the payload is appended to the
\* parameter's first value and the URL re-encoded; the result is u.String().
probeURL(target, param, payload) ==
    LET u == urlParse(target)
        q == Query(u)
        q2 == Set(q, param, Get(q, param) \o payload)
    IN  String(u, Encode(q2))

\* A check that looks for the two markers apart.
checkAppendLoose(target, param, payload, net) ==
    LET resp == doRequest(probeURL(target, param, payload), net) IN
    IF urlParse(target).err THEN FALSE
    ELSE Contains(resp.body, prefix) /\ Contains(resp.body, suffix)

\* checkAppend: that URL is requested; true iff the body holds the payload.
checkAppend(target, param, payload, net) ==
    LET resp == doRequest(probeURL(target, param, payload), net) IN
    IF urlParse(target).err THEN FALSE ELSE Contains(resp.body, payload)

(***************************************************************************)
(* The inputs of the model.                                                *)
(***************************************************************************)
\* The lines of standard input when the pool has any size: a blank line and
\* a URL with one parameter.
PoolLines == {" ", "http://x/a?q=hi"}

\* The lines of standard input when the pool has one worker: two URLs, one
\* of them escaped.
SeqLines == {"http://x/a?q=hi", "http://x/b\\?q\\=hi"}

\* The lines of standard input in SpecTwo: a URL with two parameters and a
\* URL with one.
TwoLines == {"http://x/a?q=1&r=2", "http://x/b?q=hi"}

RawLines == PoolLines \cup SeqLines \cup TwoLines

Scenario4 == "http:\\/\\/x\\/a\\?q\\=1\\&r\\=2"

Alphabet == {"\\", "?", "=", "&", "a"}

RECURSIVE Strings(_)
Strings(n) ==
    IF n = 0 THEN {""}
    ELSE LET shorter == Strings(n - 1) IN
         shorter \cup {s \o c : s \in shorter, c \in Alphabet}

\* The lines a single worker is fed in SpecOne: every string over Alphabet
\* up to MaxLen, and URLs with an escaped path, an empty value, a bare key,
\* two parameters, a value that escaping changes, a repeated key, a control
\* character.
OneLines ==
    Strings(MaxLen) \cup RawLines
        \cup {Scenario4, "http://x/a?q=", "http://x/a?q", "http://x/a?q=&r=2",
              "http://x/a?q=1&r=2", "http://x/a?q=a%26b", "http://x/a?q=a+b",
              "http://x/a?q=zz&q=ok", "http://x/a?q=ok&q=zz",
              "http://x/a?q=h\ti"}

\* Sequences over S of length at most n.
RECURSIVE SeqsUpTo(_, _)
SeqsUpTo(S, n) ==
    IF n = 0 THEN {<<>>}
    ELSE LET shorter == SeqsUpTo(S, n - 1) IN
         shorter \cup {Append(q, x) : q \in shorter, x \in S}

\* What the producer can send: the lines, trimmed.
TrimmedLines == {TrimSpace(l) : l \in RawLines \cup OneLines}

\* Line 75 for each of them, computed once.
normalizeTable == {<<l, normalizeURL(l)>> : l \in TrimmedLines}

\* A worker that uses the line as it came.
Unnormalized(l) == l

Normalized(l) == (CHOOSE e \in normalizeTable : e[1] = l)[2]

\* The URLs a worker can hold after line 75.
CleanLines == {e[2] : e \in normalizeTable}

\* Those of them the network answers.
Served == {t \in CleanLines : Reachable(t)}

\* The network answering in a mode, and the network failing.
Answer(mode) ==
    [fail |-> FALSE, readErr |-> FALSE, ctype |-> "text/html", mode |-> mode]

Failure == [fail |-> TRUE, readErr |-> FALSE, ctype |-> "", mode |-> "static"]

\* What the network does with the 13 requests of one testSpecialChars call:
\* it answers in one mode, but for the requests of `failed`.
ProbeNets(mode, failed) ==
    [i \in DOMAIN chars |-> IF i \in failed THEN Failure ELSE Answer(mode)]

\* The probe requests of one testSpecialChars call that the network fails:
\* none, or the third (the one for "<").
FailSets == {{}, {3}}

(***************************************************************************)
(* The two scans.                                                          *)
(***************************************************************************)
\* A loop that ends at the first request the network fails.
RECURSIVE testFromStop(_, _, _, _)
testFromStop(target, param, nets, i) ==
    IF i > Len(chars) \/ nets[i].fail THEN <<>>
    ELSE (IF checkAppend(target, param, prefix \o chars[i] \o suffix, nets[i])
          THEN <<chars[i]>> ELSE <<>>)
             \o testFromStop(target, param, nets, i + 1)

\* testSpecialChars from the i-th probe character on; nets[i] is what the
\* network does with the i-th request.
RECURSIVE testFrom(_, _, _, _)
testFrom(target, param, nets, i) ==
    IF i > Len(chars) THEN <<>>
    ELSE (IF checkAppend(target, param, prefix \o chars[i] \o suffix, nets[i])
          THEN <<chars[i]>> ELSE <<>>)
             \o testFrom(target, param, nets, i + 1)

testSpecialChars(target, param, nets) == testFrom(target, param, nets, 1)

\* A loop that makes every request twice.
probeRequestsTwice(target, param) ==
    [i \in 1 .. 2 * Len(chars) |->
        probeURL(target, param, prefix \o chars[(i + 1) \div 2] \o suffix)]

\* The calls of checkAppend in testSpecialChars: the URLs they request, and
\* what doRequest returns for each.
probeRequests(target, param) ==
    [i \in DOMAIN chars |->
        probeURL(target, param, prefix \o chars[i] \o suffix)]

probeResps(target, param, nets) ==
    [i \in DOMAIN chars |->
        doRequest(probeURL(target, param, prefix \o chars[i] \o suffix),
                  nets[i])]

\* The call of line 76 for a URL, over all the network can do: what
\* doRequest returned and what findReflectedParams returns.
detectAll(target) ==
    UNION {{[resp |-> doRequest(target, net), params |-> ps] :
               ps \in findReflectedParams(target, net)} : net \in Outcomes}

\* The call of line 78 for a URL and a parameter: the URLs requested, what
\* doRequest returned for each, and what testSpecialChars returns.
probeAll(target, param) ==
    {[requests |-> probeRequests(target, param),
      resps |-> probeResps(target, param, ProbeNets(mode, failed)),
      chars |-> testSpecialChars(target, param, ProbeNets(mode, failed))] :
        mode \in Modes, failed \in FailSets}

\* Both, computed once for the URLs the network answers and their keys.
ServedParams ==
    UNION {{<<t, p>> : p \in DOMAIN Query(urlParse(t))} : t \in Served}

detectTable == {<<t, detectAll(t)>> : t \in Served}

probeTable == {<<tp, probeAll(tp[1], tp[2])>> : tp \in ServedParams}

DetectResults(target) ==
    IF target \in Served
    THEN (CHOOSE e \in detectTable : e[1] = target)[2]
    ELSE detectAll(target)

ProbeResults(target, param) ==
    IF <<target, param>> \in ServedParams
    THEN (CHOOSE e \in probeTable : e[1] = <<target, param>>)[2]
    ELSE probeAll(target, param)

(***************************************************************************)
(* The aggregator's map.                                                   *)
(***************************************************************************)
NoMap == [k \in {} |-> <<>>]

\* Lines 112 to 115: grouped[r.URL][r.Param] = r.Chars
Insert(g, res) ==
    LET inner == IF res.URL \in DOMAIN g THEN g[res.URL] ELSE NoMap IN
    [u \in DOMAIN g \cup {res.URL} |->
        IF u = res.URL
        THEN [p \in DOMAIN inner \cup {res.Param} |->
                 IF p = res.Param THEN res.Chars ELSE inner[p]]
        ELSE g[u]]

(***************************************************************************)
(* The initial state.                                                      *)
(***************************************************************************)
Workers == 1 .. MaxWorkers

\* A goroutine that holds no line: not started, waiting on input, returned.
Idle(pc) ==
    [pc |-> pc, idx |-> 0, rawURL |-> "", cleanURL |-> "", params |-> <<>>,
     pi |-> 0, chars |-> <<>>]

NoResult == [URL |-> "", Param |-> "", Chars |-> <<>>]

NotPrinted == [printed |-> FALSE, blocks |-> {}, noFindings |-> FALSE]

NoRequests == [detect |-> 0, probe |-> 0, params |-> 0]

InitWith(c, in) ==
    /\ concurrency = c
    /\ lines = in
    /\ scanned = 0
    /\ mainpc = "spawn"
    /\ spawned = 0
    /\ wg = 0
    /\ closer = "none"
    /\ producer = [pc |-> "none", line |-> ""]
    /\ inputClosed = FALSE
    /\ resultsClosed = FALSE
    /\ worker = [w \in Workers |-> Idle("none")]
    /\ r = NoResult
    /\ grouped = NoMap
    /\ foundAny = FALSE
    /\ output = NotPrinted
    /\ pulls = [i \in DOMAIN in |-> 0]
    /\ done = {}
    /\ detectLog = {}
    /\ probeLog = {}
    /\ received = {}
    /\ reqs = [i \in DOMAIN in |-> NoRequests]

\* A pool of any size on the lines of PoolLines, or a pool of one on the
\* lines of SeqLines.
Init ==
    /\ \/ \E c \in 0 .. MaxWorkers, in \in SeqsUpTo(PoolLines, MaxLines) :
              InitWith(c, in)
       \/ \E in \in SeqsUpTo(SeqLines, MaxLines) : InitWith(1, in)
    /\ trace = FALSE

\* One worker and one line, of any shape.
InitOne == (\E l \in OneLines : InitWith(1, <<l>>)) /\ trace = TRUE

\* One worker and the two lines of TwoLines, in either order.
InitTwo ==
    /\ \E l1 \in TwoLines, l2 \in TwoLines :
          l1 # l2 /\ InitWith(1, <<l1, l2>>)
    /\ trace = TRUE

\* The process runs until main returns or a goroutine panics.
Running == mainpc # "done" /\ \A w \in Workers : worker[w].pc # "panic"

(***************************************************************************)
(* main, lines 69 to 104: the workers, the closer, the producer.           *)
(***************************************************************************)
\* A loop that starts workers beyond the option.
SpawnMore ==
    /\ Running /\ mainpc = "spawn" /\ spawned < MaxWorkers
    /\ wg' = wg + 1
    /\ worker' = [worker EXCEPT ![spawned + 1] = Idle("recv")]
    /\ spawned' = spawned + 1
    /\ UNCHANGED <<concurrency, lines, scanned, mainpc, closer, producer,
                   inputClosed, resultsClosed, r, grouped, foundAny, output,
                   pulls, done, detectLog, probeLog, received, reqs, trace>>

\* Lines 70 to 72: wg.Add(1) and go func()
Spawn ==
    /\ Running /\ mainpc = "spawn" /\ spawned < concurrency
    /\ wg' = wg + 1
    /\ worker' = [worker EXCEPT ![spawned + 1] = Idle("recv")]
    /\ spawned' = spawned + 1
    /\ UNCHANGED <<concurrency, lines, scanned, mainpc, closer, producer,
                   inputClosed, resultsClosed, r, grouped, foundAny, output,
                   pulls, done, detectLog, probeLog, received, reqs, trace>>

\* Line 91: the loop is over, go func() { wg.Wait(); close(results) }
GoCloser ==
    /\ Running /\ mainpc = "spawn" /\ ~(spawned < concurrency)
    /\ closer' = "wait"
    /\ mainpc' = "go_producer"
    /\ UNCHANGED <<concurrency, lines, scanned, spawned, wg, producer,
                   inputClosed, resultsClosed, worker, r, grouped, foundAny,
                   output, pulls, done, detectLog, probeLog, received, reqs,
                   trace>>

\* Line 96: go func() { for sc.Scan() ... }
GoProducer ==
    /\ Running /\ mainpc = "go_producer"
    /\ producer' = [pc |-> "scan", line |-> ""]
    /\ mainpc' = "range"
    /\ UNCHANGED <<concurrency, lines, scanned, spawned, wg, closer,
                   inputClosed, resultsClosed, worker, r, grouped, foundAny,
                   output, pulls, done, detectLog, probeLog, received, reqs,
                   trace>>

\* Lines 97 to 99: the next line, trimmed; a blank one is skipped
ProducerScan ==
    /\ Running /\ producer.pc = "scan" /\ scanned < Len(lines)
    /\ scanned' = scanned + 1
    /\ LET line == TrimSpace(lines[scanned + 1]) IN
       producer' = IF line # "" THEN [pc |-> "send", line |-> line]
                   ELSE producer
    /\ UNCHANGED <<concurrency, lines, mainpc, spawned, wg, closer,
                   inputClosed, resultsClosed, worker, r, grouped, foundAny,
                   output, pulls, done, detectLog, probeLog, received, reqs,
                   trace>>

\* Line 103: sc.Scan() is false, close(input)
ProducerClose ==
    /\ Running /\ producer.pc = "scan" /\ scanned = Len(lines)
    /\ inputClosed' = TRUE
    /\ producer' = [pc |-> "done", line |-> ""]
    /\ UNCHANGED <<concurrency, lines, scanned, mainpc, spawned, wg, closer,
                   resultsClosed, worker, r, grouped, foundAny, output,
                   pulls, done, detectLog, probeLog, received, reqs, trace>>

\* A closer that does not wait for the group.
CloserCloseNoWait ==
    /\ Running /\ closer = "wait"
    /\ resultsClosed' = TRUE
    /\ closer' = "done"
    /\ UNCHANGED <<concurrency, lines, scanned, mainpc, spawned, wg, producer,
                   inputClosed, worker, r, grouped, foundAny, output,
                   pulls, done, detectLog, probeLog, received, reqs, trace>>

\* Lines 92 and 93: wg.Wait() returns at zero, close(results)
CloserClose ==
    /\ Running /\ closer = "wait" /\ wg = 0
    /\ resultsClosed' = TRUE
    /\ closer' = "done"
    /\ UNCHANGED <<concurrency, lines, scanned, mainpc, spawned, wg, producer,
                   inputClosed, worker, r, grouped, foundAny, output,
                   pulls, done, detectLog, probeLog, received, reqs, trace>>

(***************************************************************************)
(* A worker, lines 72 to 88.                                               *)
(***************************************************************************)
\* A worker that sends whatever the prober returned.
EmitsAlways(cs) == TRUE

\* Line 79: a finding is sent only for a non-empty list of characters.
Emits(cs) == Len(cs) > 0

\* The end of one turn of the loop of line 77: the next parameter, or back to
\* the range over input.
Advance(rec) ==
    IF rec.pi < Len(rec.params)
    THEN [rec EXCEPT !.pc = "probe", !.pi = @ + 1, !.chars = <<>>]
    ELSE Idle("recv")

\* Lines 74 and 75: the producer's send meets this worker's receive (input is
\* unbuffered), and the worker normalises what it got.
Handoff(w) ==
    /\ Running /\ producer.pc = "send" /\ worker[w].pc = "recv"
    /\ worker' = [worker EXCEPT ![w] =
                     [pc |-> "detect", idx |-> scanned,
                      rawURL |-> producer.line,
                      cleanURL |-> Normalized(producer.line),
                      params |-> <<>>, pi |-> 0, chars |-> <<>>]]
    /\ producer' = [pc |-> "scan", line |-> ""]
    /\ pulls' = [pulls EXCEPT ![scanned] = @ + 1]
    /\ UNCHANGED <<concurrency, lines, scanned, mainpc, spawned, wg, closer,
                   inputClosed, resultsClosed, r, grouped, foundAny, output,
                   done, detectLog, probeLog, received, reqs, trace>>

\* What the history keeps of a request or a response.
NotKept == <<>>

Kept(x) == IF trace THEN x ELSE NotKept

\* Line 76: params := findReflectedParams(client, cleanURL)
Detect(w) ==
    /\ Running /\ worker[w].pc = "detect"
    /\ \E call \in DetectResults(worker[w].cleanURL) :
            LET ps == call.params
                rec == [worker[w] EXCEPT !.params = ps]
            IN  /\ worker' = [worker EXCEPT ![w] = Advance(rec)]
                /\ done' = IF ps = <<>> THEN done \cup {rec.idx} ELSE done
                /\ detectLog' = detectLog \cup
                       {[raw |-> rec.rawURL, target |-> rec.cleanURL,
                         resp |-> Kept(call.resp), params |-> ps]}
                /\ reqs' = [reqs EXCEPT ![rec.idx] =
                               [@ EXCEPT !.detect = @ + 1,
                                         !.params = Len(ps)]]
    /\ UNCHANGED <<concurrency, lines, scanned, mainpc, spawned, wg, closer,
                   producer, inputClosed, resultsClosed, r, grouped, foundAny,
                   output, pulls, probeLog, received, trace>>

\* Lines 78 and 79: chars := testSpecialChars(client, cleanURL, p), and the
\* test of its length
Probe(w) ==
    /\ Running /\ worker[w].pc = "probe"
    /\ \E call \in ProbeResults(worker[w].cleanURL,
                                  worker[w].params[worker[w].pi]) :
         LET rec == worker[w]
             p == rec.params[rec.pi]
             cs == call.chars
         IN  /\ probeLog' = probeLog \cup
                     {[url |-> rec.cleanURL, param |-> p,
                       requests |-> Kept(call.requests),
                       resps |-> Kept(call.resps),
                       chars |-> cs]}
             /\ reqs' = [reqs EXCEPT ![rec.idx].probe =
                            @ + Len(call.requests)]
             /\ IF Emits(cs)
                THEN /\ worker' = [worker EXCEPT ![w].pc = "send",
                                                 ![w].chars = cs]
                     /\ done' = done
                ELSE /\ worker' = [worker EXCEPT ![w] = Advance(rec)]
                     /\ done' = IF rec.pi < Len(rec.params) THEN done
                                ELSE done \cup {rec.idx}
    /\ UNCHANGED <<concurrency, lines, scanned, mainpc, spawned, wg, closer,
                   producer, inputClosed, resultsClosed, r, grouped, foundAny,
                   output, pulls, detectLog, received, trace>>

\* A worker that writes its finding into the map itself.
SendWrites(w) ==
    /\ Running /\ worker[w].pc = "send"
    /\ IF resultsClosed
       THEN /\ worker' = [worker EXCEPT ![w].pc = "panic"]
            /\ UNCHANGED <<mainpc, r, done>>
       ELSE LET rec == worker[w] IN
            /\ mainpc = "range"
            /\ mainpc' = "fold"
            /\ r' = [URL |-> rec.cleanURL, Param |-> rec.params[rec.pi],
                     Chars |-> rec.chars]
            /\ worker' = [worker EXCEPT ![w] = Advance(rec)]
            /\ done' = IF rec.pi < Len(rec.params) THEN done
                       ELSE done \cup {rec.idx}
    /\ grouped' = IF resultsClosed THEN grouped
                  ELSE Insert(grouped,
                              [URL |-> worker[w].cleanURL,
                               Param |-> worker[w].params[worker[w].pi],
                               Chars |-> worker[w].chars])
    /\ UNCHANGED <<concurrency, lines, scanned, spawned, wg, closer, producer,
                   inputClosed, resultsClosed, foundAny, output,
                   pulls, detectLog, probeLog, received, reqs, trace>>

\* Lines 80 to 84: results <- Result{...}.  results is unbuffered: the send
\* meets the receive of line 110; a send on the closed channel panics.
Send(w) ==
    /\ Running /\ worker[w].pc = "send"
    /\ IF resultsClosed
       THEN /\ worker' = [worker EXCEPT ![w].pc = "panic"]
            /\ UNCHANGED <<mainpc, r, done>>
       ELSE LET rec == worker[w] IN
            /\ mainpc = "range"
            /\ mainpc' = "fold"
            /\ r' = [URL |-> rec.cleanURL, Param |-> rec.params[rec.pi],
                     Chars |-> rec.chars]
            /\ worker' = [worker EXCEPT ![w] = Advance(rec)]
            /\ done' = IF rec.pi < Len(rec.params) THEN done
                       ELSE done \cup {rec.idx}
    /\ UNCHANGED <<concurrency, lines, scanned, spawned, wg, closer, producer,
                   inputClosed, resultsClosed, grouped, foundAny, output,
                   pulls, detectLog, probeLog, received, reqs, trace>>

\* A worker that returns without wg.Done().
WorkerExitNoDone(w) ==
    /\ Running /\ worker[w].pc = "recv" /\ inputClosed
    /\ worker' = [worker EXCEPT ![w] = Idle("returned")]
    /\ UNCHANGED <<concurrency, lines, scanned, mainpc, spawned, wg, closer,
                   producer, inputClosed, resultsClosed, r, grouped, foundAny,
                   output, pulls, done, detectLog, probeLog, received, reqs,
                   trace>>

\* Lines 73, 74 and 88: input is closed and empty, the range ends, the
\* function returns and the deferred wg.Done() runs.
WorkerExit(w) ==
    /\ Running /\ worker[w].pc = "recv" /\ inputClosed
    /\ worker' = [worker EXCEPT ![w] = Idle("returned")]
    /\ wg' = wg - 1
    /\ UNCHANGED <<concurrency, lines, scanned, mainpc, spawned, closer,
                   producer, inputClosed, resultsClosed, r, grouped, foundAny,
                   output, pulls, done, detectLog, probeLog, received, reqs,
                   trace>>

(***************************************************************************)
(* The aggregator and the report, lines 107 to 129.                        *)
(***************************************************************************)
\* Lines 111 to 115: one turn of the range over results
Fold ==
    /\ Running /\ mainpc = "fold"
    /\ foundAny' = TRUE
    /\ grouped' = Insert(grouped, r)
    /\ received' = received \cup {r}
    /\ r' = NoResult
    /\ mainpc' = "range"
    /\ UNCHANGED <<concurrency, lines, scanned, spawned, wg, closer, producer,
                   inputClosed, resultsClosed, worker, output, pulls, done,
                   detectLog, probeLog, reqs, trace>>

\* Line 116: results is closed, the range ends
RangeEnd ==
    /\ Running /\ mainpc = "range" /\ resultsClosed
    /\ mainpc' = "print"
    /\ UNCHANGED <<concurrency, lines, scanned, spawned, wg, closer, producer,
                   inputClosed, resultsClosed, worker, r, grouped, foundAny,
                   output, pulls, done, detectLog, probeLog, received, reqs,
                   trace>>

\* A report that never prints the message.
NoFindingsNever(found) == FALSE

\* Line 127: the message is printed when nothing was received.
NoFindings(found) == ~found

\* Lines 119 to 129: a block per URL and parameter of grouped (in the order
\* of the map, which is unspecified), then the message; main returns.
PrintReport ==
    /\ Running /\ mainpc = "print"
    /\ output' =
           [printed |-> TRUE,
            blocks |-> UNION {{<<u, p, grouped[u][p]>> : p \in DOMAIN grouped[u]}
                                 : u \in DOMAIN grouped},
            noFindings |-> NoFindings(foundAny)]
    /\ mainpc' = "done"
    /\ UNCHANGED <<concurrency, lines, scanned, spawned, wg, closer, producer,
                   inputClosed, resultsClosed, worker, r, grouped, foundAny,
                   pulls, done, detectLog, probeLog, received, reqs, trace>>

(***************************************************************************)
(* The specifications.                                                     *)
(***************************************************************************)
Next ==
    \/ Spawn
    \/ GoCloser
    \/ GoProducer
    \/ ProducerScan
    \/ ProducerClose
    \/ CloserClose
    \/ \E w \in Workers : Handoff(w)
    \/ \E w \in Workers : Detect(w)
    \/ \E w \in Workers : Probe(w)
    \/ \E w \in Workers : Send(w)
    \/ \E w \in Workers : WorkerExit(w)
    \/ Fold
    \/ RangeEnd
    \/ PrintReport

\* Every pool size and input within the bounds.
Spec == Init /\ [][Next]_vars

\* The same runs under a fair scheduler: a goroutine that can take a step
\* takes one.
FairSpec == Spec /\ WF_vars(Next)

\* One worker, one line of any shape.
SpecOne == InitOne /\ [][Next]_vars

\* One worker, two lines, one of them with two parameters.
SpecTwo == InitTwo /\ [][Next]_vars

(***************************************************************************)
(* The properties.                                                         *)
(***************************************************************************)
Range(s) == {s[i] : i \in DOMAIN s}

\* The workers main has started.
Started == {w \in Workers : w <= concurrency}

\* C1: results is closed only once every started worker has left its loop
\* over input, which is then closed and drained, with none of its sends
\* outstanding; and no worker ever sends on the closed channel.
C1_ResultsClosedAfterWorkers ==
    /\ resultsClosed =>
          \A w \in Started :
              /\ worker[w].pc = "returned"
              /\ inputClosed
              /\ producer.pc = "done"
    /\ \A w \in Workers : worker[w].pc # "panic"
    /\ \A w \in Workers : worker[w].pc = "send" => ~resultsClosed

\* Two workers have run, at least one finding was sent and received, and
\* results is closed.
C1_Witness ==
    /\ resultsClosed
    /\ concurrency = 2
    /\ received # {}
    /\ \A w \in Started : worker[w].pc = "returned"

\* The state a run ends in: input and results closed, every started worker
\* returned, the aggregator out of its loop and the report printed.
Finished ==
    /\ inputClosed
    /\ resultsClosed
    /\ \A w \in Started : worker[w].pc = "returned"
    /\ output.printed
    /\ mainpc = "done"

\* C2: with at least one worker and a fair scheduler, every run over a
\* finite input ends: input is closed, every worker returns, results is
\* closed, the aggregator leaves its loop and the report is printed.
C2_Terminates == (concurrency >= 1) ~> Finished

\* A run of two workers over two lines has ended.
C2_Witness == Finished /\ concurrency = 2 /\ Len(lines) = 2 /\ scanned = 2

\* C3: whatever the pool size, once results is closed every line that is not
\* blank was pulled by exactly one worker and scanned to the end, and no
\* blank line was ever handed to a worker.
C3_EveryLineScanned ==
    /\ \A i \in DOMAIN lines :
          /\ pulls[i] <= 1
          /\ TrimSpace(lines[i]) = "" => pulls[i] = 0
    /\ resultsClosed =>
          \A i \in DOMAIN lines :
              TrimSpace(lines[i]) # "" => pulls[i] = 1 /\ i \in done

\* C4: an entry of grouped has a non-empty list of characters, its parameter
\* was returned by the detector for that URL, and that list is what the
\* prober returned for it; a probe that returns nothing adds no entry.
C4_ReportOnlyReflectedUnfiltered ==
    /\ \A u \in DOMAIN grouped : \A p \in DOMAIN grouped[u] :
          /\ Len(grouped[u][p]) > 0
          /\ \E d \in detectLog : d.target = u /\ p \in Range(d.params)
          /\ \E e \in probeLog :
                 e.url = u /\ e.param = p /\ e.chars = grouped[u][p]
    /\ \A f \in received : Len(f.Chars) > 0
    /\ mainpc = "fold" => Len(r.Chars) > 0

\* A parameter was detected and probed with every payload transformed, and
\* the finished report has an entry from another probe only.
C4_Witness ==
    /\ mainpc = "done"
    /\ \E e \in probeLog : e.chars = <<>>
    /\ DOMAIN grouped # {}

\* C5: when the report is final, every non-empty list of characters a prober
\* returned is in grouped under its URL and its parameter.
C5_EveryFindingReported ==
    mainpc = "done" =>
        \A e \in probeLog :
            e.chars # <<>> =>
                /\ e.url \in DOMAIN grouped
                /\ e.param \in DOMAIN grouped[e.url]
                /\ grouped[e.url][e.param] = e.chars

\* The aggregator's loop over a sequence of findings.
RECURSIVE Aggregate(_, _)
Aggregate(g, fs) ==
    IF fs = <<>> THEN g ELSE Aggregate(Insert(g, fs[1]), Tail(fs))

\* C6: the findings received so far give the same grouped in every order.
C6_OrderIndependent ==
    \A fs \in Orders(received) : Aggregate(NoMap, fs) = grouped

\* C7: once the report is printed, the message is there exactly when grouped
\* is empty, and when a finding was folded in the message is absent and a
\* block is printed.
C7_NoFindingsIffEmpty ==
    output.printed =>
        /\ output.noFindings <=> grouped = NoMap
        /\ received # {} => ~output.noFindings /\ output.blocks # {}
        /\ output.blocks = {} <=> grouped = NoMap

\* A report with the message, after workers ran and nothing was sent.
C7_Witness ==
    /\ output.printed
    /\ output.noFindings
    /\ concurrency >= 1
    /\ detectLog # {}

\* C8: what a worker holds after line 75 is a fixed point of normalizeURL.
C8_NormalizeIdempotent ==
    \A w \in Workers :
        worker[w].pc = "detect" =>
            normalizeURL(worker[w].cleanURL) = worker[w].cleanURL

\* Scenario 4 after line 75: the backslash before "/" stays.
Scenario4Clean == "http:\\/\\/x\\/a?q=1&r=2"

\* C9: the detector is called for scenario 4 with the string in which "\?",
\* "\=" and "\&" are unescaped and "\/" is not.
C9_Scenario4Normalized ==
    /\ \A w \in Workers :
          worker[w].pc = "detect" /\ worker[w].rawURL = Scenario4 =>
              worker[w].cleanURL = Scenario4Clean
    /\ \A d \in detectLog : d.raw = Scenario4 => d.target = Scenario4Clean

\* The detector was called for scenario 4.
C9_Witness == \E d \in detectLog : d.raw = Scenario4

\* C9 as stated: the detector is called with http://x/a?q=1&r=2.
C9_Scenario4AsStated ==
    \A d \in detectLog : d.raw = Scenario4 => d.target = "http://x/a?q=1&r=2"

\* C10: no parameter the detector returns has an empty value.
C10_EmptyValueNotReflected ==
    \A d \in detectLog : \A k \in Range(d.params) :
        Get(Query(urlParse(d.target)), k) # ""

\* The detector's calls in which the request succeeded with a content type
\* that contains "html".
HtmlCalls == {d \in detectLog : ~d.resp.nil /\ Contains(d.resp.ctype, "html")}

\* C11: when the request succeeds with an html content type, a parameter with
\* a non-empty first value V is returned exactly when the body contains V, or
\* V escaped as url.QueryEscape does, or V with "+" for each space; the other
\* values of a repeated name play no part, and only names of the query are
\* returned.
C11_ReflectedIffRepresented ==
    \A d \in HtmlCalls :
        LET q == Query(urlParse(d.target)) IN
        /\ Range(d.params) \subseteq DOMAIN q
        /\ \A k \in DOMAIN q :
              LET V == q[k][1] IN
              V # "" =>
                  (k \in Range(d.params) <=>
                      \/ Contains(d.resp.body, V)
                      \/ Contains(d.resp.body, QueryEscape(V))
                      \/ Contains(d.resp.body, ReplaceAll(V, " ", "+")))

\* A parameter was returned for a body that holds its value in escaped form
\* only.
C11_Witness ==
    \E d \in HtmlCalls :
        LET q == Query(urlParse(d.target)) IN
        \E k \in Range(d.params) :
            q[k][1] # "" /\ ~Contains(d.resp.body, q[k][1])

\* The detector's calls that must come back empty: the request failed (no
\* response), the URL does not parse, or the content type has no "html".
FailedCalls ==
    {d \in detectLog :
        \/ d.resp.nil
        \/ urlParse(d.target).err
        \/ ~Contains(d.resp.ctype, "html")}

\* C12: when the detection request fails, the URL does not parse or the
\* content type has no "html", findReflectedParams returns the empty
\* sequence, no probe request is made for that URL, and the worker neither
\* panics nor stops: it is back at its range over input, or has returned
\* because input is closed.
C12_EmptyOnFailure ==
    /\ \A d \in FailedCalls :
          /\ d.params = <<>>
          /\ \A e \in probeLog : e.url # d.target
          /\ \A i \in DOMAIN lines :
                normalizeURL(TrimSpace(lines[i])) = d.target =>
                    reqs[i].probe = 0
    /\ FailedCalls # {} =>
          \A w \in Started : worker[w].pc \in {"recv", "returned"}

\* An answer of another content type whose body holds the value came back
\* empty, and the worker went on to the end of input.
C12_Witness ==
    \E d \in FailedCalls :
        /\ ~d.resp.nil
        /\ Contains(d.resp.body, "hi")
        /\ worker[1].pc = "returned"

\* C13: in every call of testSpecialChars each of the 13 characters has its
\* own request, and the character is returned exactly when the body of that
\* request holds "aprefix", the character and "asuffix" in one piece; a
\* request that failed leaves its character out; what is returned is the
\* probe set, in its order, without the characters left out.
C13_UnfilteredIffPayloadEchoed ==
    \A e \in probeLog :
        /\ Len(e.resps) = 13
        /\ Len(chars) = 13
        /\ \A i \in DOMAIN chars :
              /\ chars[i] \in Range(e.chars) <=>
                    Contains(e.resps[i].body, "aprefix" \o chars[i] \o "asuffix")
              /\ e.resps[i].nil => chars[i] \notin Range(e.chars)
        /\ e.chars = SelectSeq(chars, LAMBDA c : c \in Range(e.chars))

\* A call in which the request for "<" failed, the one for ">" was echoed,
\* and 12 characters were returned.
C13_Witness ==
    \E e \in probeLog :
        /\ e.resps[3].nil
        /\ Contains(e.resps[4].body, "aprefix>asuffix")
        /\ Len(e.chars) = 12

\* The requests of a testSpecialChars call that failed.
Failed(e) == {i \in DOMAIN e.resps : e.resps[i].nil}

\* A result without the characters of the requests in F.
Without(cs, F) == SelectSeq(cs, LAMBDA c : \A i \in F : chars[i] # c)

\* C14: a probe request that fails leaves its own character out and nothing
\* else.  The call still makes all its requests, and for the other
\* characters it returns what a call returns in which no request failed and
\* the other responses are the same.  When main is done every line was
\* scanned to its end, every parameter the detector returned was probed with
\* all 13 characters, and every non-empty result is in the report as it was
\* returned.
C14_FailureIsolated ==
    /\ \A e \in probeLog :
          /\ Len(e.resps) = Len(chars)
          /\ \A i \in Failed(e) : chars[i] \notin Range(e.chars)
          /\ \A c \in ProbeResults(e.url, e.param) :
                (/\ Failed(c) = {}
                 /\ \A i \in DOMAIN chars \ Failed(e) : c.resps[i] = e.resps[i])
                    => Without(c.chars, Failed(e)) = Without(e.chars, Failed(e))
    /\ mainpc = "done" =>
          /\ \A i \in DOMAIN lines :
                i \in done /\ reqs[i].probe = Len(chars) * reqs[i].params
          /\ \A d \in detectLog : \A p \in Range(d.params) :
                \E e \in probeLog : e.url = d.target /\ e.param = p
          /\ \A e \in probeLog :
                e.chars # <<>> =>
                    /\ e.url \in DOMAIN grouped
                    /\ e.param \in DOMAIN grouped[e.url]
                    /\ grouped[e.url][e.param] = e.chars

\* The request for "<" failed in the probe of q; the same call returned ">",
\* the probe of r on the same URL returned all 13 characters, and the other
\* URL is in the report as well.
C14_Witness ==
    /\ mainpc = "done"
    /\ \E e \in probeLog :
          /\ e.url = "http://x/a?q=1&r=2" /\ e.param = "q"
          /\ Failed(e) = {3}
          /\ ">" \in Range(e.chars)
    /\ \E e \in probeLog :
          /\ e.url = "http://x/a?q=1&r=2" /\ e.param = "r"
          /\ Len(e.chars) = Len(chars)
    /\ DOMAIN grouped = {"http://x/a?q=1&r=2", "http://x/b?q=hi"}
    /\ DOMAIN grouped["http://x/a?q=1&r=2"] = {"q", "r"}

\* C15: no request is made twice.  A line a worker has taken causes at most
\* one call of doRequest for detection and at most 13 for each parameter the
\* detector returned, each probe call requests 13 different URLs, and a line
\* whose scan is over has caused exactly 1 + 13 * k calls, k the number of
\* parameters returned, whatever the network did.
C15_NoRetry ==
    /\ \A i \in DOMAIN lines :
          /\ reqs[i].detect <= 1
          /\ reqs[i].probe <= 13 * reqs[i].params
          /\ pulls[i] = 0 => reqs[i] = NoRequests
          /\ reqs[i].detect = 1 =>
                \E d \in detectLog :
                    /\ d.raw = TrimSpace(lines[i])
                    /\ Len(d.params) = reqs[i].params
    /\ \A i \in done :
          reqs[i].detect + reqs[i].probe = 1 + 13 * reqs[i].params
    /\ \A e \in probeLog :
          /\ Len(e.requests) = 13
          /\ \A i, j \in DOMAIN e.requests :
                i # j => e.requests[i] # e.requests[j]

\* A line with two reflected parameters was scanned with 27 requests, one of
\* which failed.
C15_Witness ==
    /\ \E i \in done :
          /\ reqs[i].params = 2
          /\ reqs[i].detect + reqs[i].probe = 27
    /\ \E e \in probeLog : Failed(e) # {}

\* The names of a query string in the order in which they are written, each
\* once.
RECURSIVE KeysInOrder(_, _)
KeysInOrder(query, seen) ==
    IF query = "" THEN <<>>
    ELSE LET i == Index(query, "&")
             pair == IF i = 0 THEN query ELSE SubSeq(query, 1, i - 1)
             rest == IF i = 0 THEN "" ELSE Drop(query, i)
             j == Index(pair, "=")
             key == QueryUnescape(IF j = 0 THEN pair ELSE SubSeq(pair, 1, j - 1))
         IN  IF pair = "" \/ key.err \/ key.s \in seen
             THEN KeysInOrder(rest, seen)
             ELSE <<key.s>> \o KeysInOrder(rest, seen \cup {key.s})

\* C16: findReflectedParams returns the names in one order, that of the
\* query string, whenever it is called with the same URL and response.
C16_DeterministicOrder ==
    \A d \in detectLog :
        d.params =
            SelectSeq(KeysInOrder(urlParse(d.target).RawQuery, {}),
                      LAMBDA k : k \in Range(d.params))

\* The workers that hold a line.
Scanning == {w \in Workers : worker[w].pc \in {"detect", "probe", "send"}}

\* C17: a line is normalised once, when the worker takes it and before any
\* request for it; the string computed then is what the worker holds through
\* the scan, the target of the detection call, the URL every probe call is
\* made for and the URL of every finding sent.
C17_NormalizedOnce ==
    /\ \A i \in DOMAIN lines :
          /\ pulls[i] <= 1
          /\ pulls[i] = 0 => reqs[i] = NoRequests
    /\ \A w \in Scanning :
          /\ worker[w].rawURL = TrimSpace(lines[worker[w].idx])
          /\ worker[w].cleanURL = normalizeURL(worker[w].rawURL)
    /\ \A d \in detectLog : d.target = normalizeURL(d.raw)
    /\ \A e \in probeLog :
          \E d \in detectLog : d.target = e.url /\ e.param \in Range(d.params)
    /\ \A f \in received \cup (IF mainpc = "fold" THEN {r} ELSE {}) :
          /\ \E d \in detectLog : d.target = f.URL /\ f.Param \in Range(d.params)
          /\ \E e \in probeLog :
                e.url = f.URL /\ e.param = f.Param /\ e.chars = f.Chars

\* A finding was received for the escaped line, under its normalised URL.
C17_Witness ==
    /\ \E d \in detectLog :
          d.raw = "http://x/b\\?q\\=hi" /\ d.target = "http://x/b?q=hi"
    /\ \E f \in received : f.URL = "http://x/b?q=hi"

\* C18: each of the 13 URLs a probe call requests is the call's own URL with
\* one change: the probed parameter has the one value made of its first
\* value there and the payload of that request's character.  The path, the
\* other names and their values are those of the call's URL, whatever the
\* requests before it were.
C18_ProbeFromOriginal ==
    \A e \in probeLog :
        LET u == urlParse(e.url)
            q == Query(u)
        IN  \A i \in DOMAIN e.requests :
                LET pu == urlParse(e.requests[i])
                    pq == Query(pu)
                IN  /\ ~pu.err
                    /\ pu.base = u.base
                    /\ DOMAIN pq = DOMAIN q
                    /\ pq[e.param] =
                          <<q[e.param][1] \o "aprefix" \o chars[i] \o "asuffix">>
                    /\ \A k \in DOMAIN q \ {e.param} : pq[k] = q[k]

\* The probe of q in a URL with a second parameter: the third request is for
\* "<" appended to the value 1, with r as it was.
C18_Witness ==
    \E e \in probeLog :
        /\ e.url = "http://x/a?q=1&r=2"
        /\ e.param = "q"
        /\ e.requests[3] = "http://x/a?q=1aprefix%3Casuffix&r=2"
        /\ e.requests[13] = "http://x/a?q=1aprefix%7Dasuffix&r=2"

\* The steps of the producer and of worker w.
ProducerStep == ProducerScan \/ ProducerClose

WorkerStep(w) ==
    Handoff(w) \/ Detect(w) \/ Probe(w) \/ Send(w) \/ WorkerExit(w)

\* C19: grouped and foundAny change only in the aggregator's turn of its
\* loop.  A step of the producer, of the closer or of a worker leaves them
\* as they are, and a step of a worker changes no other worker's variables:
\* beside its own it touches only the two channels and the wait group.
C19_OnlyAggregatorWrites ==
    [][/\ (grouped' # grouped \/ foundAny' # foundAny) =>
              mainpc = "fold" /\ mainpc' = "range"
       /\ (ProducerStep \/ CloserClose \/ \E w \in Workers : WorkerStep(w)) =>
              UNCHANGED <<grouped, foundAny, output>>
       /\ \A w \in Workers :
              WorkerStep(w) =>
                 /\ \A v \in Workers \ {w} : worker'[v] = worker[v]
                 /\ UNCHANGED <<concurrency, lines, scanned, spawned, closer,
                                inputClosed, resultsClosed, trace>>]_vars

\* The report holds the finding of one worker of a pool of two while the
\* other worker is scanning a line.
C19_Witness ==
    /\ concurrency = 2
    /\ foundAny
    /\ grouped # NoMap
    /\ Scanning # {}

\* The workers with a request in flight: a worker waits for one response at
\* a time, that of its detection request or of the probe request it is at.
InFlight == {w \in Workers : worker[w].pc \in {"detect", "probe"}}

\* C20: main starts no more workers than the option says; so at most that
\* many lines are being scanned, each by one worker, and at most that many
\* requests are in flight.
C20_BoundedParallelism ==
    /\ spawned <= concurrency
    /\ \A w \in Workers : worker[w].pc # "none" => w <= concurrency
    /\ Cardinality(Scanning) <= concurrency
    /\ Cardinality(InFlight) <= concurrency
    /\ \A v, w \in Scanning : v # w => worker[v].idx # worker[w].idx

\* A pool of two with both workers waiting for a response.
C20_Witness == concurrency = 2 /\ Cardinality(InFlight) = 2

=============================================================================
